---- MODULE Spec2Model ----
(***************************************************************************)
(* raven.contrib.django.models: the lazily constructed, cached client      *)
(* (get_client and the module global _client), the ProxyClient that        *)
(* forwards to it, and sentry_exception_handler.                            *)
(*                                                                         *)
(* Class names are abstract strings; a client instance is a record         *)
(* [id, cls, opts]: its identity, the class that was instantiated and the  *)
(* value of the forwarded options at construction.  Python strings that    *)
(* the code slices (exception names, IGNORE_EXCEPTIONS entries) are        *)
(* sequences of one-character strings.                                     *)
(***************************************************************************)
EXTENDS Integers, Sequences, FiniteSets, TLC

VARIABLES sentryClient, ravenOpts, sentryIgnore, ravenIgnore,
          cached, nextId, last, epochRet, hres, thr

vars == <<sentryClient, ravenOpts, sentryIgnore, ravenIgnore,
          cached, nextId, last, epochRet, hres, thr>>

----------------------------------------------------------------------------
(* Bounds of the model *)

\* instances constructed in one behaviour
MaxInst == 3
\* forwarded-option values are 0..MaxOptVal
MaxOptVal == 2
\* threads of the interleaved get_client
NumThreads == 2

----------------------------------------------------------------------------
(* Values *)

\* Python None as a class name, and as the second component of _client
NoneName == "None"
NoneInst == [id |-> 0, cls |-> NoneName, opts |-> 0]
\* no exception
NoExc == ""
\* a settings attribute that is not defined
Unset == "Unset"

\* 'raven.contrib.django.DjangoClient', the getattr default of line 120
DefaultClient == "Default"

\* Class paths a settings file or a caller can name.  "Default" and "A"
\* import; "Bad" names a module that does not import (ImportError);
\* "NoAttr" names an importable module without that class (the getattr of
\* line 149 raises AttributeError).
ClassNames == {"Default", "A", "Bad", "NoAttr"}

\* The forwarded options (RAVEN_CONFIG / SENTRY_* values, lines 125-144),
\* abstracted to one value.  With value 0 the client constructor raises
\* (for instance an invalid DSN).
OptVals == 0..MaxOptVal

----------------------------------------------------------------------------
(* get_client, lines 115-161 *)

\* line 120: client = getattr(django_settings, 'SENTRY_CLIENT', default)
Configured(sc) == IF sc = Unset THEN DefaultClient ELSE sc

\* variant: the cache is never consulted
CacheMissAlways(c, client) == TRUE
\* variant: only an empty cache is a miss
CacheMissOnlyEmpty(c, client) == c[1] = NoneName
\* line 122: if _client[0] != client
CacheMiss(c, client) == c[1] # client

\* line 149: getattr(__import__(module, {}, {}, class_name), class_name).
\* The default class lives in the package this module belongs to, which is
\* imported whenever this module runs, so its import succeeds.
ImportOutcome(client) ==
    CASE client = "Bad" -> "ImportError"
      [] client = "NoAttr" -> "AttributeError"
      [] OTHER -> "ok"

\* line 157: Client(**options) returns, or raises on options it rejects
ConstructOk(opts) == opts # 0

\* variant: the fallback is installed whether or not a client is cached
NoPreviousAlways(c) == TRUE
\* line 152: if not _client[1]
NoPrevious(c) == c[2] = NoneInst

\* variant: a temporary client is cached too
StoresAlways(tmp) == TRUE
\* line 158: if not tmp_client
Stores(tmp) == ~tmp

\* variant: another class as the fallback
FallbackName_A == "A"
\* line 154: client = 'raven.contrib.django.DjangoClient'
FallbackName == "Default"

Raise(c, exc, built, logged) ==
    [cache |-> c, ret |-> NoneInst, raised |-> exc, built |-> built, logged |-> logged]

\* get_client(client) with _client = c; tmp is tmp_client (line 118), opts
\* the options built in lines 125-144, nid the number of instances made so
\* far, logOk whether logger.exception returns.  The result is the new
\* _client, the returned instance, the exception raised (NoExc if none),
\* the number of instances constructed and of log records written.
RECURSIVE get_client(_, _, _, _, _, _)
get_client(c, client, tmp, opts, nid, logOk) ==
    IF CacheMiss(c, client)
    THEN CASE ImportOutcome(client) = "ImportError" ->
                \* line 151
                IF ~logOk THEN Raise(c, "LoggingError", 0, 0)
                ELSE IF NoPrevious(c)
                THEN \* lines 154-155, then line 161
                     LET r == get_client(c, FallbackName, TRUE, opts, nid, logOk) IN
                     IF r.raised # NoExc
                     THEN Raise(c, r.raised, r.built, r.logged + 1)
                     ELSE [cache |-> <<FallbackName, r.ret>>, ret |-> r.ret,
                           raised |-> NoExc, built |-> r.built, logged |-> r.logged + 1]
                ELSE \* line 161
                     [cache |-> c, ret |-> c[2], raised |-> NoExc, built |-> 0, logged |-> 1]
           [] ImportOutcome(client) = "AttributeError" ->
                Raise(c, "AttributeError", 0, 0)
           [] OTHER ->
                \* lines 157-160
                IF ~ConstructOk(opts) THEN Raise(c, "ConstructError", 0, 0)
                ELSE LET instance == [id |-> nid + 1, cls |-> client, opts |-> opts] IN
                     [cache |-> IF Stores(tmp) THEN <<client, instance>> ELSE c,
                      ret |-> instance, raised |-> NoExc, built |-> 1, logged |-> 0]
    ELSE \* line 161
         [cache |-> c, ret |-> c[2], raised |-> NoExc, built |-> 0, logged |-> 0]

\* The outcomes of the logger that a call get_client(client) can meet: it
\* reaches logger.exception (line 151) only on a cache miss with a failing
\* import, and the logger either returns or raises.
LogOutcomes(c, client) ==
    IF CacheMiss(c, client) /\ ImportOutcome(client) = "ImportError" THEN BOOLEAN ELSE {TRUE}

----------------------------------------------------------------------------
(* ProxyClient, lines 39-104 *)

\* the operations the class defines
ProxyOps ==
    {"__class__", "__dict__", "__repr__", "__getattr__", "__setattr__", "__delattr__",
     "__lt__", "__le__", "__eq__", "__ne__", "__gt__", "__ge__", "__cmp__", "__hash__",
     "__nonzero__", "__len__", "__getitem__", "__iter__", "__contains__", "__getslice__",
     "__add__", "__sub__", "__mul__", "__floordiv__", "__mod__", "__divmod__", "__pow__",
     "__lshift__", "__rshift__", "__and__", "__xor__", "__or__", "__div__", "__truediv__",
     "__neg__", "__pos__", "__abs__", "__invert__", "__complex__", "__int__", "__long__",
     "__float__", "__str__", "__unicode__", "__oct__", "__hex__", "__index__",
     "__coerce__", "__enter__", "__exit__"}

\* What the lambda of an operation evaluates: an expression over
\* get_client(), or (lines 102-104) the same method of the proxy x itself.
\* x.__coerce__(x, o) passes three arguments to a lambda of two and raises
\* TypeError; x.__enter__() and x.__exit__(...) call themselves without end
\* and raise RecursionError.
ProxySelfError(op) ==
    CASE op = "__coerce__" -> "TypeError"
      [] op = "__enter__" -> "RecursionError"
      [] op = "__exit__" -> "RecursionError"
      [] OTHER -> NoExc

\* the result of operation op applied to a client instance
ApplyOp(op, inst) == <<op, inst.id>>
NoResult == <<"", 0>>

----------------------------------------------------------------------------
(* sentry_exception_handler, lines 164-182, and get_option, lines 109-112 *)

\* exception classes: __module__ and __name__ as strings
ExcTypes ==
    {[module |-> <<"m">>, name |-> <<"E">>],
     [module |-> <<"m">>, name |-> <<"F">>],
     [module |-> <<"n">>, name |-> <<"E">>]}

\* the request argument of the handler (None is its default)
Requests == {"request", NoneName}

\* values of an IGNORE_EXCEPTIONS setting: undefined, a collection of
\* strings, or a value set() cannot iterate (None)
IgnoreList(L) == [kind |-> "list", val |-> L]
UnsetIgnore == [kind |-> "unset", val |-> {}]
InvalidIgnore == [kind |-> "invalid", val |-> {}]

\* RAVEN_CONFIG['IGNORE_EXCEPTIONS']
RavenIgnoreVals ==
    {UnsetIgnore, InvalidIgnore,
     IgnoreList({}),
     IgnoreList({<<"E">>}),
     IgnoreList({<<"m", ".", "E">>}),
     IgnoreList({<<"m", ".", "*">>}),
     IgnoreList({<<"E", "*">>}),
     IgnoreList({<<"*">>}),
     IgnoreList({<<"F">>, <<"n", ".", "E", "*">>})}

\* django_settings.SENTRY_IGNORE_EXCEPTIONS
SentryIgnoreVals ==
    {UnsetIgnore, IgnoreList({}), IgnoreList({<<"n", ".", "*">>})}

\* lines 110-112: getattr(django_settings, 'SENTRY_%s' % x, options.get(x, d))
get_option(sentry, raven, d) ==
    IF sentry.kind # "unset" THEN sentry
    ELSE IF raven.kind # "unset" THEN raven ELSE d

\* str.startswith, str.endswith('*') and e[:-1]
StartsWith(s, p) == Len(p) <= Len(s) /\ SubSeq(s, 1, Len(p)) = p
EndsWithStar(e) == Len(e) > 0 /\ e[Len(e)] = "*"
DropLast(e) == SubSeq(e, 1, Len(e) - 1)

\* line 169: exc_name = '%s.%s' % (exc_type.__module__, exc_type.__name__)
ExcName(t) == t.module \o <<".">> \o t.name

\* variant: the wildcard entry is compared with its '*'
ExcludedWholeEntry(t, exclusions) ==
    \/ t.name \in exclusions
    \/ ExcName(t) \in exclusions
    \/ \E e \in exclusions : EndsWithStar(e) /\ StartsWith(ExcName(t), e)
\* variant: any wildcard entry excludes
ExcludedAnyWildcard(t, exclusions) ==
    \/ t.name \in exclusions
    \/ ExcName(t) \in exclusions
    \/ \E e \in exclusions : EndsWithStar(e)
\* line 170
Excluded(t, exclusions) ==
    \/ t.name \in exclusions
    \/ ExcName(t) \in exclusions
    \/ \E e \in exclusions : EndsWithStar(e) /\ StartsWith(ExcName(t), DropLast(e))

\* what one run of the handler did
HandlerResult(t, request) ==
    [op |-> "handler", exc |-> t, request |-> request, raised |-> NoExc,
     excluded |-> FALSE, resolved |-> FALSE, resolveRaised |-> NoExc,
     calls |-> 0, callExc |-> t, callReq |-> NoneName, target |-> NoneInst,
     caught |-> NoExc, infoLogged |-> 0, errLogged |-> 0, warned |-> 0]

\* The handler for the exception t being handled (sys.exc_info()) and the
\* given request, with _client = c.  logOk: the calls on `logger` return
\* (they raise otherwise); capOk: captureException returns.  The result is
\* the handler's record h and the get_client result r of line 177 (the
\* proxy's __getattr__, line 53), with r.cache = c when it is not reached.
\* warnings.warn is taken to return.
sentry_exception_handler(t, request, c, sc, opts, nid, sIgn, rIgn, logOk, capOk) ==
    LET h0 == HandlerResult(t, request)
        noCall == [cache |-> c, ret |-> NoneInst, raised |-> NoExc, built |-> 0, logged |-> 0]
        option == get_option(sIgn, rIgn, IgnoreList({}))
    IN
    IF option.kind = "invalid"
    THEN \* line 167: set(None) raises TypeError
         [h |-> [h0 EXCEPT !.raised = "TypeError"], r |-> noCall]
    ELSE IF Excluded(t, option.val)
    THEN \* lines 171-174
         [h |-> IF logOk THEN [h0 EXCEPT !.excluded = TRUE, !.infoLogged = 1]
                ELSE [h0 EXCEPT !.excluded = TRUE, !.raised = "LoggingError"],
          r |-> noCall]
    ELSE \* lines 176-182
         LET r == get_client(c, Configured(sc), FALSE, opts, nid, logOk)
             caught == IF r.raised # NoExc THEN r.raised
                       ELSE IF ~capOk THEN "CaptureError" ELSE NoExc
             h1 == [h0 EXCEPT !.resolved = TRUE, !.resolveRaised = r.raised,
                              !.calls = IF r.raised = NoExc THEN 1 ELSE 0,
                              !.callReq = IF r.raised = NoExc THEN request ELSE NoneName,
                              !.target = r.ret,
                              !.caught = caught]
         IN [h |-> IF caught = NoExc THEN h1
                   ELSE IF logOk THEN [h1 EXCEPT !.errLogged = 1]
                   ELSE [h1 EXCEPT !.warned = 1],
             r |-> r]

----------------------------------------------------------------------------
(* State *)

\* the record of the operation that has just completed
IdleLast ==
    [op |-> "idle", arg |-> NoneName, method |-> "", pre |-> <<NoneName, NoneInst>>,
     first |-> FALSE, ret |-> NoneInst, result |-> NoResult, raised |-> NoExc,
     built |-> 0, logged |-> 0]

IdleHres == [HandlerResult([module |-> <<>>, name |-> <<>>], NoneName) EXCEPT !.op = "idle"]
\* a thread's position in get_client() and its locals: client (line 120),
\* instance (line 157, or the value of the inner call of line 155), and
\* what the call returned or raised
IdleThread == [pc |-> "idle", client |-> NoneName, instance |-> NoneInst,
               ret |-> NoneInst, raised |-> NoExc]
Threads == 1..NumThreads
IdleThr == [t \in Threads |-> IdleThread]

\* line 36: _client = (None, None); line 106 constructs the proxy only
InitCommon ==
    /\ sentryClient \in {Unset} \cup ClassNames
    /\ ravenOpts \in OptVals
    /\ cached = <<NoneName, NoneInst>>
    /\ nextId = 0
    /\ last = IdleLast
    /\ epochRet = NoneInst

Init ==
    /\ InitCommon
    /\ sentryIgnore = UnsetIgnore
    /\ ravenIgnore = UnsetIgnore
    /\ hres = IdleHres
    /\ thr = IdleThr

\* django_settings.SENTRY_CLIENT is set, changed or removed
ChangeClass ==
    \E sc \in ({Unset} \cup ClassNames) \ {sentryClient} :
        /\ sentryClient' = sc
        /\ epochRet' = IF Configured(sc) = Configured(sentryClient) THEN epochRet ELSE NoneInst
        /\ last' = IdleLast
        /\ hres' = IdleHres
        /\ UNCHANGED <<ravenOpts, sentryIgnore, ravenIgnore, cached, nextId, thr>>

\* a forwarded option (RAVEN_CONFIG or a SENTRY_* setting) changes
ChangeOptions ==
    \E o \in OptVals \ {ravenOpts} :
        /\ ravenOpts' = o
        /\ last' = IdleLast
        /\ hres' = IdleHres
        /\ UNCHANGED <<sentryClient, sentryIgnore, ravenIgnore, cached, nextId, epochRet, thr>>

\* the effect of one call on _client, the instance counter and the
\* instance the calls without argument have returned since the configured
\* class name last changed
CallEffect(r, noArg) ==
    /\ nextId + r.built <= MaxInst
    /\ cached' = r.cache
    /\ nextId' = nextId + r.built
    /\ epochRet' = IF noArg /\ r.raised = NoExc /\ epochRet = NoneInst THEN r.ret ELSE epochRet

\* get_client()
GetClient ==
    \E logOk \in LogOutcomes(cached, Configured(sentryClient)) :
        LET r == get_client(cached, Configured(sentryClient), FALSE, ravenOpts, nextId, logOk) IN
        /\ CallEffect(r, TRUE)
        /\ last' = [op |-> "get_client", arg |-> NoneName, method |-> "", pre |-> cached,
                    first |-> (epochRet = NoneInst), ret |-> r.ret, result |-> NoResult,
                    raised |-> r.raised, built |-> r.built, logged |-> r.logged]
        /\ UNCHANGED <<sentryClient, ravenOpts, sentryIgnore, ravenIgnore, hres, thr>>

\* get_client(name)
GetClientNamed ==
    \E name \in ClassNames : \E logOk \in LogOutcomes(cached, name) :
        LET r == get_client(cached, name, TRUE, ravenOpts, nextId, logOk) IN
        /\ CallEffect(r, FALSE)
        /\ last' = [op |-> "get_client", arg |-> name, method |-> "", pre |-> cached,
                    first |-> FALSE, ret |-> r.ret, result |-> NoResult,
                    raised |-> r.raised, built |-> r.built, logged |-> r.logged]
        /\ UNCHANGED <<sentryClient, ravenOpts, sentryIgnore, ravenIgnore, hres, thr>>

\* an operation on the module-level proxy object `client`
ProxyOp ==
    \E op \in ProxyOps, logOk \in LogOutcomes(cached, Configured(sentryClient)) :
        IF ProxySelfError(op) # NoExc
        THEN /\ last' = [IdleLast EXCEPT !.op = "proxy", !.method = op, !.pre = cached,
                                         !.raised = ProxySelfError(op)]
             /\ UNCHANGED <<sentryClient, ravenOpts, sentryIgnore, ravenIgnore,
                            cached, nextId, epochRet, hres, thr>>
        ELSE LET r == get_client(cached, Configured(sentryClient), FALSE, ravenOpts, nextId, logOk) IN
             /\ CallEffect(r, TRUE)
             /\ last' = [op |-> "proxy", arg |-> NoneName, method |-> op, pre |-> cached,
                         first |-> (epochRet = NoneInst), ret |-> r.ret,
                         result |-> IF r.raised = NoExc THEN ApplyOp(op, r.ret) ELSE NoResult,
                         raised |-> r.raised, built |-> r.built, logged |-> r.logged]
             /\ UNCHANGED <<sentryClient, ravenOpts, sentryIgnore, ravenIgnore, hres, thr>>

Next == ChangeClass \/ ChangeOptions \/ GetClient \/ GetClientNamed

\* the accessor, called directly and with explicit names, under changing settings
Spec == Init /\ [][Next]_vars

NextProxy == ChangeClass \/ ChangeOptions \/ GetClient \/ ProxyOp

\* the accessor and the proxy under changing settings
SpecProxy == Init /\ [][NextProxy]_vars

\* one of the two IGNORE_EXCEPTIONS settings changes
ChangeIgnore ==
    /\ \/ /\ sentryIgnore' \in SentryIgnoreVals \ {sentryIgnore}
          /\ ravenIgnore' = ravenIgnore
       \/ /\ ravenIgnore' \in RavenIgnoreVals \ {ravenIgnore}
          /\ sentryIgnore' = sentryIgnore
    /\ hres' = IdleHres
    /\ UNCHANGED <<sentryClient, ravenOpts, cached, nextId, last, epochRet, thr>>

\* got_request_exception fires: sentry_exception_handler(request)
Handler ==
    \E t \in ExcTypes, request \in Requests, logOk \in BOOLEAN, capOk \in BOOLEAN :
        LET o == sentry_exception_handler(t, request, cached, sentryClient, ravenOpts,
                                          nextId, sentryIgnore, ravenIgnore, logOk, capOk) IN
        /\ CallEffect(o.r, o.h.resolved)
        /\ hres' = o.h
        /\ last' = IdleLast
        /\ UNCHANGED <<sentryClient, ravenOpts, sentryIgnore, ravenIgnore, thr>>

InitHandler ==
    /\ InitCommon
    /\ sentryIgnore \in SentryIgnoreVals
    /\ ravenIgnore \in RavenIgnoreVals
    /\ hres = IdleHres
    /\ thr = IdleThr

NextHandler == ChangeClass \/ ChangeIgnore \/ Handler

\* the exception handler under changing settings
SpecHandler == InitHandler /\ [][NextHandler]_vars

----------------------------------------------------------------------------
(* get_client() called from several threads; the module takes no lock, so *)
(* the threads interleave between the statements of lines 115-161.        *)

ThreadFrame == <<sentryClient, ravenOpts, sentryIgnore, ravenIgnore, last, epochRet, hres>>

\* lines 118-120: tmp_client is False, client is the configured name
T_Call(t) ==
    /\ thr[t].pc = "idle"
    /\ thr' = [thr EXCEPT ![t].pc = "l122", ![t].client = Configured(sentryClient)]
    /\ UNCHANGED <<cached, nextId>>
    /\ UNCHANGED ThreadFrame

\* line 122
T_Check(t) ==
    /\ thr[t].pc = "l122"
    /\ thr' = [thr EXCEPT ![t].pc = IF CacheMiss(cached, thr[t].client) THEN "l149" ELSE "l161"]
    /\ UNCHANGED <<cached, nextId>>
    /\ UNCHANGED ThreadFrame

\* lines 123-149: the options are built and the class is imported
T_Import(t) ==
    /\ thr[t].pc = "l149"
    /\ thr' = CASE ImportOutcome(thr[t].client) = "ImportError" ->
                     [thr EXCEPT ![t].pc = "l151"]
                [] ImportOutcome(thr[t].client) = "AttributeError" ->
                     [thr EXCEPT ![t].pc = "done", ![t].raised = "AttributeError"]
                [] OTHER -> [thr EXCEPT ![t].pc = "l157"]
    /\ UNCHANGED <<cached, nextId>>
    /\ UNCHANGED ThreadFrame

\* line 157
T_Construct(t) ==
    /\ thr[t].pc = "l157"
    /\ IF ConstructOk(ravenOpts)
       THEN /\ nextId' = nextId + 1
            /\ thr' = [thr EXCEPT ![t].pc = "l159",
                                  ![t].instance = [id |-> nextId + 1, cls |-> thr[t].client,
                                                   opts |-> ravenOpts]]
       ELSE /\ nextId' = nextId
            /\ thr' = [thr EXCEPT ![t].pc = "done", ![t].raised = "ConstructError"]
    /\ UNCHANGED cached
    /\ UNCHANGED ThreadFrame

\* lines 158-160
T_Store(t) ==
    /\ thr[t].pc = "l159"
    /\ cached' = IF Stores(FALSE) THEN <<thr[t].client, thr[t].instance>> ELSE cached
    /\ thr' = [thr EXCEPT ![t].pc = "done", ![t].ret = thr[t].instance]
    /\ UNCHANGED nextId
    /\ UNCHANGED ThreadFrame

\* lines 151-152
T_Except(t) ==
    /\ thr[t].pc = "l151"
    /\ \E logOk \in BOOLEAN :
          thr' = IF ~logOk THEN [thr EXCEPT ![t].pc = "done", ![t].raised = "LoggingError"]
                 ELSE IF NoPrevious(cached) THEN [thr EXCEPT ![t].pc = "l155"]
                 ELSE [thr EXCEPT ![t].pc = "l161"]
    /\ UNCHANGED <<cached, nextId>>
    /\ UNCHANGED ThreadFrame

\* line 155, the inner call get_client(client) with the default name: its
\* line 122, and its line 161 when the name is cached by now
T_InnerCheck(t) ==
    /\ thr[t].pc = "l155"
    /\ thr' = IF CacheMiss(cached, FallbackName)
              THEN [thr EXCEPT ![t].pc = "l155_157"]
              ELSE [thr EXCEPT ![t].pc = "l155_store", ![t].instance = cached[2]]
    /\ UNCHANGED <<cached, nextId>>
    /\ UNCHANGED ThreadFrame

\* the inner call's lines 149-160: the default class imports, tmp_client
\* is True and nothing is stored
T_InnerConstruct(t) ==
    /\ thr[t].pc = "l155_157"
    /\ IF ConstructOk(ravenOpts)
       THEN /\ nextId' = nextId + 1
            /\ thr' = [thr EXCEPT ![t].pc = "l155_store",
                                  ![t].instance = [id |-> nextId + 1, cls |-> FallbackName,
                                                   opts |-> ravenOpts]]
       ELSE /\ nextId' = nextId
            /\ thr' = [thr EXCEPT ![t].pc = "done", ![t].raised = "ConstructError"]
    /\ UNCHANGED cached
    /\ UNCHANGED ThreadFrame

\* line 155: _client = (client, <the inner call's value>)
T_FallbackStore(t) ==
    /\ thr[t].pc = "l155_store"
    /\ cached' = <<FallbackName, thr[t].instance>>
    /\ thr' = [thr EXCEPT ![t].pc = "l161"]
    /\ UNCHANGED nextId
    /\ UNCHANGED ThreadFrame

\* line 161
T_Return(t) ==
    /\ thr[t].pc = "l161"
    /\ thr' = [thr EXCEPT ![t].pc = "done", ![t].ret = cached[2]]
    /\ UNCHANGED <<cached, nextId>>
    /\ UNCHANGED ThreadFrame

NextThreads ==
    \E t \in Threads :
        \/ T_Call(t)
        \/ T_Check(t)
        \/ T_Import(t)
        \/ T_Construct(t)
        \/ T_Store(t)
        \/ T_Except(t)
        \/ T_InnerCheck(t)
        \/ T_InnerConstruct(t)
        \/ T_FallbackStore(t)
        \/ T_Return(t)

\* threads calling get_client() once each on an empty cache, the settings fixed
SpecThreads == Init /\ [][NextThreads]_vars

----------------------------------------------------------------------------
(* Properties of get_client *)

\* the last operation was get_client() without argument, directly or
\* from a forwarding operation of the proxy
NoArgCall ==
    \/ last.op = "get_client" /\ last.arg = NoneName
    \/ last.op = "proxy" /\ ProxySelfError(last.method) = NoExc

\* the last operation was get_client(name)
NamedCall == last.op = "get_client" /\ last.arg # NoneName

\* the class name the last get_client call resolved
CallName == IF last.arg = NoneName THEN Configured(sentryClient) ELSE last.arg

\* C1: while the configured class name is unchanged, every get_client()
\* that returns gives the same instance, which is the cached one, and no
\* call after the first that returned constructs anything or changes the
\* cache (so the class is constructed at most once over the sequence).
C1_SameCachedInstance ==
    (NoArgCall /\ last.raised = NoExc) =>
        /\ last.ret = epochRet
        /\ cached[2] = epochRet
        /\ last.built <= 1
        /\ (~last.first => last.built = 0 /\ cached = last.pre)

\* a repeated get_client() under an importable configured class returned
\* the instance of the earlier call
C1_Witness ==
    /\ last.op = "get_client" /\ last.arg = NoneName /\ last.raised = NoExc
    /\ ~last.first
    /\ last.ret = epochRet
    /\ last.ret.cls = Configured(sentryClient)
    /\ nextId >= 2


\* the configured class path fails to import and get_client() was called
FailingConfigCall ==
    NoArgCall /\ ImportOutcome(Configured(sentryClient)) = "ImportError"

\* C2, as stated: when the configured class path fails to import,
\* get_client() returns an instance of the default class, no call
\* constructs more than one, and every call after the first reuses the
\* instance of the first without constructing another.  (Stated for the
\* calls that return, so that a raising logger or constructor is not what
\* refutes it.)
C2_Original ==
    (FailingConfigCall /\ last.raised = NoExc) =>
        /\ last.ret.cls = DefaultClient
        /\ last.built <= 1
        /\ (~last.first => last.built = 0 /\ last.ret = epochRet)

\* C2, amended: with a failing configured class path, get_client() on an
\* empty cache constructs the default client once and caches it under the
\* default name; on a non-empty cache it returns the cached client, of
\* whatever class, and constructs nothing; every later call under the same
\* configuration returns the instance of the first.  It raises only when
\* the logging call raises, or the default constructor does on an empty
\* cache.
C2_FallbackOnceOnEmptyCache ==
    FailingConfigCall =>
        /\ (last.raised = NoExc /\ last.pre[2] = NoneInst) =>
              /\ last.built = 1
              /\ last.ret.cls = DefaultClient
              /\ last.ret.id = nextId
              /\ cached = <<DefaultClient, last.ret>>
        /\ (last.raised = NoExc /\ last.pre[2] # NoneInst) =>
              /\ last.built = 0
              /\ last.ret = last.pre[2]
              /\ cached = last.pre
        /\ (last.raised = NoExc /\ ~last.first) => last.ret = epochRet
        /\ last.raised \in {NoExc, "LoggingError", "ConstructError"}
        /\ last.raised = "ConstructError" => (last.pre[2] = NoneInst /\ ~ConstructOk(ravenOpts))
        /\ last.raised # NoExc => cached = last.pre

\* a second failing get_client() reused the default client the first built
C2_Witness ==
    /\ FailingConfigCall /\ last.raised = NoExc
    /\ ~last.first
    /\ last.built = 0
    /\ last.ret = epochRet
    /\ last.ret.cls = DefaultClient
    /\ cached = <<DefaultClient, last.ret>>

\* a get_client call, with or without argument, resolved a failing import
FailingImportCall ==
    (NoArgCall \/ NamedCall) /\ ImportOutcome(CallName) = "ImportError"

\* C3, as stated: for every cache state and every class name whose import
\* fails, get_client logs the failure, does not raise, and returns an
\* instance of the default client class.  (Stated for the calls in which
\* the logger and the constructor do not raise themselves.)
C3_Original ==
    (FailingImportCall /\ last.raised \notin {"LoggingError", "ConstructError"}) =>
        /\ last.logged >= 1
        /\ last.raised = NoExc
        /\ last.ret.cls = DefaultClient

\* C3, amended: for every class name whose import fails, get_client logs
\* the failure once and catches it; with a client already cached it returns
\* that client, whatever its class, and leaves the cache alone; with an
\* empty cache it returns a new instance of the default class and caches
\* it.  It raises only what the logging call or the default constructor
\* raises.
C3_FallbackOrPrevious ==
    FailingImportCall =>
        /\ last.raised \in {NoExc, "LoggingError", "ConstructError"}
        /\ last.raised # "LoggingError" => last.logged = 1
        /\ (last.raised = NoExc /\ last.pre[2] # NoneInst) =>
              (last.ret = last.pre[2] /\ cached = last.pre /\ last.built = 0)
        /\ (last.raised = NoExc /\ last.pre[2] = NoneInst) =>
              /\ last.ret.cls = DefaultClient
              /\ last.ret.opts = ravenOpts
              /\ last.built = 1
              /\ cached = <<DefaultClient, last.ret>>
        /\ (last.pre[2] # NoneInst /\ last.raised # NoExc) => last.raised = "LoggingError"

\* a failing import returned the cached client of another class
C3_Witness ==
    /\ FailingImportCall /\ last.raised = NoExc
    /\ last.logged = 1
    /\ last.pre[2] # NoneInst
    /\ last.ret = last.pre[2]
    /\ last.ret.cls # DefaultClient

\* C9, as stated: get_client(name) never changes the cached pair; with a
\* name other than the cached one it returns a newly constructed instance
\* that is not cached, with the cached name the cached instance.  (Stated
\* for the calls that return.)
C9_Original ==
    (NamedCall /\ last.raised = NoExc) =>
        /\ cached = last.pre
        /\ last.arg # last.pre[1] => (last.built = 1 /\ last.ret.id = nextId /\ last.ret # cached[2])
        /\ last.arg = last.pre[1] => (last.built = 0 /\ last.ret = last.pre[2])

\* C9, amended: get_client(name) with a name that imports never changes
\* the cached pair: with a name other than the cached one it returns a
\* newly constructed instance that is not cached, with the cached name the
\* cached instance.  With a name whose import fails it returns the cached
\* instance if there is one, and on an empty cache it constructs the
\* default client, caches it and returns it.  A call that raises leaves
\* the cache unchanged.
C9_NamedCallFrame ==
    NamedCall =>
        /\ (last.raised = NoExc /\ ImportOutcome(last.arg) = "ok") =>
              /\ cached = last.pre
              /\ last.arg # last.pre[1] =>
                    /\ last.built = 1
                    /\ last.ret = [id |-> nextId, cls |-> last.arg, opts |-> ravenOpts]
                    /\ last.ret # cached[2]
              /\ last.arg = last.pre[1] => (last.built = 0 /\ last.ret = last.pre[2])
        /\ (last.raised = NoExc /\ ImportOutcome(last.arg) = "ImportError") =>
              /\ last.pre[2] # NoneInst => (cached = last.pre /\ last.ret = last.pre[2])
              /\ last.pre[2] = NoneInst => (cached = <<DefaultClient, last.ret>> /\ last.built = 1)
        /\ last.raised # NoExc => cached = last.pre
        /\ epochRet # NoneInst => cached[2] = epochRet

\* get_client(name) built a second temporary instance of a class other
\* than the cached one and left the cache as it was
C9_Witness ==
    /\ NamedCall /\ last.raised = NoExc
    /\ ImportOutcome(last.arg) = "ok"
    /\ last.pre[2] # NoneInst
    /\ last.arg # last.pre[1]
    /\ last.built = 1
    /\ nextId >= 3
    /\ cached = last.pre

\* the instance get_client() constructs from the current settings
FromCurrentSettings(inst) ==
    /\ inst.opts = ravenOpts
    /\ inst.cls = IF ImportOutcome(Configured(sentryClient)) = "ImportError"
                  THEN DefaultClient ELSE Configured(sentryClient)

\* C6, as stated: every get_client() or proxy operation uses an instance
\* constructed from the settings as they are now (class name and forwarded
\* options), and that instance is the cached one.  (Stated for the calls
\* that return.)
C6_Original ==
    (NoArgCall /\ last.raised = NoExc) =>
        (FromCurrentSettings(last.ret) /\ cached[2] = last.ret)

\* C6, amended: the cache is keyed by the class name alone.  When the
\* configured class name imports and differs from the cached name, the next
\* get_client() or proxy operation constructs an instance of that class
\* from the current options and replaces the cached pair by it (or raises
\* what the constructor raises and leaves the cache alone).  When it equals
\* the cached name the cached instance is returned whatever the forwarded
\* options have become.
C6_ReplaceOnClassNameChange ==
    (NoArgCall /\ ImportOutcome(Configured(sentryClient)) = "ok") =>
        /\ (last.raised = NoExc /\ last.pre[1] # Configured(sentryClient)) =>
              /\ last.built = 1
              /\ last.ret = [id |-> nextId, cls |-> Configured(sentryClient), opts |-> ravenOpts]
              /\ cached = <<Configured(sentryClient), last.ret>>
        /\ (last.pre[1] = Configured(sentryClient)) =>
              /\ last.raised = NoExc
              /\ last.built = 0
              /\ last.ret = last.pre[2]
              /\ cached = last.pre
        /\ last.raised # NoExc =>
              (last.raised = "ConstructError" /\ ~ConstructOk(ravenOpts) /\ cached = last.pre)

\* after a change of class name a proxy operation replaced a cached client
\* by one of the newly configured class
C6_Witness ==
    /\ last.op = "proxy" /\ last.raised = NoExc
    /\ last.pre[2] # NoneInst
    /\ last.pre[1] # Configured(sentryClient)
    /\ cached = <<Configured(sentryClient), last.ret>>
    /\ last.ret.cls = Configured(sentryClient)
    /\ last.ret.opts = ravenOpts
    /\ last.ret # last.pre[2]

----------------------------------------------------------------------------
(* Properties of ProxyClient *)

\* C7: every operation the proxy defines is forwarded to the instance
\* get_client() returns at the time of the call and gives the result of
\* that operation on the instance (when get_client() itself returns); the
\* client is constructed by the first such operation, not before.
C7_EveryOperationForwarded ==
    /\ (last.op = "idle" /\ cached[2] = NoneInst) => nextId = 0
    /\ (last.op = "proxy" /\ last.raised \notin {"LoggingError", "ConstructError", "AttributeError"}) =>
          /\ last.raised = NoExc
          /\ last.ret = cached[2]
          /\ last.result = ApplyOp(last.method, cached[2])

----------------------------------------------------------------------------
(* Properties of sentry_exception_handler *)

\* the IGNORE_EXCEPTIONS collection in force: SENTRY_IGNORE_EXCEPTIONS if
\* defined, else RAVEN_CONFIG['IGNORE_EXCEPTIONS'], else empty
IgnoreInForce ==
    IF sentryIgnore.kind # "unset" THEN sentryIgnore.val
    ELSE IF ravenIgnore.kind # "unset" THEN ravenIgnore.val ELSE {}

IgnoreIsValid ==
    IF sentryIgnore.kind # "unset" THEN sentryIgnore.kind = "list"
    ELSE ravenIgnore.kind # "invalid"

IsPrefix(p, s) == \E k \in 0..Len(s) : p = [i \in 1..k |-> s[i]]

\* an entry matches the exception: it is the class name or the
\* module-qualified name, or it ends in '*' and the rest of it is a prefix
\* of the module-qualified name
Matches(e, t) ==
    \/ e = t.name
    \/ e = t.module \o <<".">> \o t.name
    \/ /\ e # <<>>
       /\ e[Len(e)] = "*"
       /\ IsPrefix([i \in 1..(Len(e) - 1) |-> e[i]], t.module \o <<".">> \o t.name)

\* C4: an exception that an entry of the IGNORE_EXCEPTIONS in force
\* matches (exactly, or as a prefix wildcard of the module-qualified name)
\* is never forwarded to captureException: the handler resolves no client,
\* calls nothing on it, and when it returns it has logged the filtering.
C4_IgnoredNeverForwarded ==
    (hres.op = "handler" /\ IgnoreIsValid /\ \E e \in IgnoreInForce : Matches(e, hres.exc)) =>
        /\ hres.calls = 0
        /\ ~hres.resolved
        /\ hres.excluded
        /\ hres.raised = NoExc => hres.infoLogged = 1

\* an exception matched by a prefix-wildcard entry only was dropped
C4_Witness ==
    /\ hres.op = "handler" /\ IgnoreIsValid
    /\ hres.exc.name \notin IgnoreInForce
    /\ (hres.exc.module \o <<".">> \o hres.exc.name) \notin IgnoreInForce
    /\ \E e \in IgnoreInForce : Len(e) > 1 /\ Matches(e, hres.exc)
    /\ hres.calls = 0
    /\ hres.raised = NoExc

\* C5: the handler never raises into its caller, whatever fails while it
\* runs.
C5_HandlerNeverRaises ==
    hres.op = "handler" => hres.raised = NoExc

\* C10, as stated: an exception that no entry matches is passed to
\* client.captureException exactly once, with the current exception and
\* the handler's request.
C10_Original ==
    (hres.op = "handler" /\ IgnoreIsValid /\ ~\E e \in IgnoreInForce : Matches(e, hres.exc)) =>
        /\ hres.calls = 1
        /\ hres.callExc = hres.exc
        /\ hres.callReq = hres.request

\* C10, amended: for an exception that no entry matches the handler
\* evaluates client.captureException once: when get_client() behind the
\* proxy returns a client, captureException is called exactly once, on that
\* (cached) client, with the current exception and the handler's request;
\* when get_client() raises, the exception is caught and logged (or
\* warned about) and captureException is not called.
C10_ForwardedOnceWhenClientResolves ==
    (hres.op = "handler" /\ IgnoreIsValid /\ ~\E e \in IgnoreInForce : Matches(e, hres.exc)) =>
        /\ hres.resolved
        /\ hres.resolveRaised = NoExc =>
              /\ hres.calls = 1
              /\ hres.callExc = hres.exc
              /\ hres.callReq = hres.request
              /\ hres.target = cached[2]
              /\ hres.target # NoneInst
        /\ hres.resolveRaised # NoExc =>
              /\ hres.calls = 0
              /\ hres.caught = hres.resolveRaised
              /\ hres.errLogged + hres.warned = 1

\* an exception that a wildcard entry for another module does not match
\* was forwarded with its request
C10_Witness ==
    /\ hres.op = "handler" /\ IgnoreIsValid
    /\ IgnoreInForce # {}
    /\ ~\E e \in IgnoreInForce : Matches(e, hres.exc)
    /\ hres.calls = 1
    /\ hres.callReq = "request"
    /\ hres.target = cached[2]
    /\ hres.caught = NoExc

----------------------------------------------------------------------------
(* Properties of get_client() under threads *)

\* C8: whatever the interleaving of the threads that call get_client() on
\* an empty cache under unchanged settings, the class is constructed at
\* most once and every caller that has returned received the instance in
\* the cache.
C8_ConstructedOnceUnderThreads ==
    /\ nextId <= 1
    /\ \A t \in Threads :
          (thr[t].pc = "done" /\ thr[t].raised = NoExc) => thr[t].ret = cached[2]

====
